---------------------------- MODULE Spec2Model ----------------------------
(***************************************************************************)
(* A model of the ethox processing core:                                   *)
(*   - the External stub device (nic/external.rs) polled through the       *)
(*     Ethernet endpoint's Sender and Receiver (layer/eth/endpoint.rs),    *)
(*   - the routing table (layer/ip/route.rs),                              *)
(*   - the UDP packet states (layer/udp/packet.rs).                        *)
(* Each subsystem has its own specification over the shared variables.     *)
(***************************************************************************)
EXTENDS Integers, Sequences, FiniteSets, TLC

VARIABLES
    buffer,     \* External.buffer: index -> payload bytes
    recv,       \* External.recv
    sent,       \* External.sent
    split,      \* External.split
    rxSeen,     \* history: indices handed to a receiver since the last reset_receive
    last,       \* history: the last device call, its arguments and its result
    storage,    \* Routes.storage: slots sorted by key, NoEntry for an empty slot
    rlast,      \* history: the last routing table call and its result
    upkt,       \* the UDP layer's view of one buffer
    ulast       \* history: the last UDP packet operation

nicVars == <<buffer, recv, sent, split, rxSeen, last>>
routeVars == <<storage, rlast>>
udpVars == <<upkt, ulast>>
vars == <<buffer, recv, sent, split, rxSeen, last, storage, rlast, upkt, ulast>>

\* ------------------------------------------------------------------ bounds
NumBuffers == 2
MaxMax == 2
MaxQueue == 2

\* ------------------------------------------------- wire: Ethernet frames
HEADER_LEN == 14

MAC_ADDR_1 == <<0, 1, 2, 3, 4, 5>>
MAC_OTHER == <<0, 1, 2, 3, 4, 6>>
MAC_BROADCAST == <<255, 255, 255, 255, 255, 255>>
ETHERTYPE == <<190, 239>>
PAYLOAD_BYTES == <<170, 255>>

Frame(dst, src, payload) == dst \o src \o ETHERTYPE \o payload

\* The payloads the device buffers may hold.
BufContents ==
    { Frame(MAC_ADDR_1, MAC_ADDR_1, PAYLOAD_BYTES),
      Frame(MAC_BROADCAST, MAC_OTHER, <<1, 2, 3>>),
      Frame(MAC_OTHER, MAC_ADDR_1, PAYLOAD_BYTES),
      SubSeq(Frame(MAC_ADDR_1, MAC_OTHER, <<>>), 1, HEADER_LEN - 1) }

\* What a send handler may leave in its buffer: nothing new (<<>>), or a frame
\* it prepared from the endpoint's own address.
TxWrites ==
    { <<>>,
      Frame(MAC_ADDR_1, MAC_ADDR_1, PAYLOAD_BYTES),
      Frame(MAC_OTHER, MAC_ADDR_1, PAYLOAD_BYTES) }

\* EthernetFrame::new_checked: the buffer must hold a whole header.
new_checked(payload) ==
    IF Len(payload) < HEADER_LEN
    THEN [ok |-> FALSE, dst_addr |-> <<>>, src_addr |-> <<>>]
    ELSE [ok |-> TRUE,
          dst_addr |-> SubSeq(payload, 1, 6),
          src_addr |-> SubSeq(payload, 7, 12)]

is_broadcast(addr) == addr = MAC_BROADCAST

\* EthernetFrame::payload: the bytes after the header.
payload_slice(bytes) == SubSeq(bytes, HEADER_LEN + 1, Len(bytes))

\* ------------------------------------------------- nic: the enqueue flag
SetTrue(b) == [tag |-> "SetTrue", val |-> b]
NotPossible == [tag |-> "NotPossible", val |-> FALSE]

\* EnqueueFlag::queue: the flag afterwards and the call's result.
queue(flag) ==
    IF flag.tag = "SetTrue"
    THEN [flag |-> SetTrue(TRUE), res |-> "Ok"]
    ELSE [flag |-> flag, res |-> "Illegal"]

was_sent(flag) == flag.tag = "SetTrue" /\ flag.val

\* A handle on which every second request takes the first one back.
QueueTimes_flip(flag, q) ==
    [flag |-> IF flag.tag = "SetTrue" /\ q > 0 THEN SetTrue(q % 2 = 1) ELSE flag,
     results |-> [i \in 1..q |->
                     IF flag.tag = "SetTrue" THEN "Ok" ELSE "Illegal"]]

\* A handler that requests queueing q times on its handle.
RECURSIVE QueueTimes(_, _)
QueueTimes(flag, q) ==
    IF q = 0
    THEN [flag |-> flag, results |-> <<>>]
    ELSE LET before == QueueTimes(flag, q - 1)
             now == queue(before.flag)
         IN [flag |-> now.flag, results |-> Append(before.results, now.res)]

\* ------------------------------------------------- eth: the endpoint
EndpointAddr == MAC_ADDR_1

accepts_own_only(addr, dst_addr) == addr = dst_addr

accepts_broadcast_only(addr, dst_addr) == is_broadcast(dst_addr)

accepts(addr, dst_addr) == addr = dst_addr \/ is_broadcast(dst_addr)

\* Receiver::receive: whether the upper handler is invoked, the payload of
\* the frame it is handed, and what its q queue requests on the handle do.
receive(flag, payload, q) ==
    LET frame == new_checked(payload) IN
    IF ~frame.ok
    THEN [invoked |-> FALSE, flag |-> flag, results |-> <<>>, seen |-> <<>>]
    ELSE IF ~accepts(EndpointAddr, frame.dst_addr)
    THEN [invoked |-> FALSE, flag |-> flag, results |-> <<>>, seen |-> <<>>]
    ELSE LET up == QueueTimes(flag, q)
         IN [invoked |-> TRUE, flag |-> up.flag, results |-> up.results,
             seen |-> payload_slice(payload)]

\* A sender that clears a buffer its handler left alone.
send_clearing(flag, payload, w, q) ==
    LET up == QueueTimes(flag, q)
    IN [payload |-> w, flag |-> up.flag, results |-> up.results]

\* Sender::send: the upper handler always runs; it may write the buffer
\* (w = <<>>: it leaves the bytes alone) and requests queueing q times.
send(flag, payload, w, q) ==
    LET up == QueueTimes(flag, q)
    IN [payload |-> IF w = <<>> THEN payload ELSE w,
        flag |-> up.flag, results |-> up.results]

\* ------------------------------------------------- nic: External
NoBuf == 0 - 1
Indices == 0..(NumBuffers - 1)

Min(a, b) == IF a < b THEN a ELSE b
saturating_sub(a, b) == IF a > b THEN a - b ELSE 0

buffer_len == NumBuffers

to_recv_unclamped == saturating_sub(split, recv)

to_recv_ignoring_recv == Min(buffer_len, split)

to_recv == saturating_sub(Min(buffer_len, split), recv)

to_send == saturating_sub(saturating_sub(buffer_len, split), sent)

next_recv == recv

next_send_from_start == sent

next_send == split + sent

tx_flag == SetTrue(FALSE)

rx_flag_settrue == SetTrue(FALSE)

rx_flag == NotPossible

tx_count_always(flag) == 1

\* The count tx reports once the sender has returned.
tx_count(flag) == IF was_sent(flag) THEN 1 ELSE 0

rx_count_two == 1 + 1

rx_count_zero == 1 - 1

rx_count == 1

\* How far a round trip has come: 1 once tx has queued a frame the handler
\* addressed to the endpoint, 2 once the split was then moved above it.
NoTrip == [stage |-> 0, idx |-> NoBuf, p |-> <<>>]

\* The polls of a device that is observed from its construction on: per
\* direction the number of calls made with max >= 1, the total of the
\* counts they returned, and the indices they handed out, in order.
NoCount == [calls |-> 0, sum |-> 0, seq |-> <<>>]

NoDrain == [on |-> FALSE, tx |-> NoCount, rx |-> NoCount]

StartDrain == [on |-> TRUE, tx |-> NoCount, rx |-> NoCount]

Counted(c, ret, idx) ==
    [calls |-> c.calls + 1, sum |-> c.sum + ret,
     seq |-> IF idx = NoBuf THEN c.seq ELSE Append(c.seq, idx)]

Drained(op, max, ret, idx) ==
    IF ~last.drain.on \/ max = 0 THEN last.drain
    ELSE IF op = "tx" THEN [last.drain EXCEPT !.tx = Counted(@, ret, idx)]
    ELSE IF op = "rx" THEN [last.drain EXCEPT !.rx = Counted(@, ret, idx)]
    ELSE last.drain

Call(op, max, ret, idx, invoked, results, wasSent, seen, trip, wrote) ==
    [op |-> op, max |-> max, ret |-> ret, idx |-> idx, invoked |-> invoked,
     results |-> results, was_sent |-> wasSent, seen |-> seen, trip |-> trip,
     wrote |-> wrote, drain |-> Drained(op, max, ret, idx),
     pre_sent |-> sent, pre_recv |-> recv, pre_split |-> split,
     pre_seen |-> rxSeen,
     pre_trip |-> IF op = "rx" THEN last.trip ELSE NoTrip]

\* The send handler wrote a frame for the endpoint's address and queued it.
SentToSelf(id, w, run) ==
    IF w # <<>> /\ was_sent(run.flag) /\ new_checked(run.payload).ok
          /\ new_checked(run.payload).dst_addr = EndpointAddr
    THEN [stage |-> 1, idx |-> id, p |-> payload_slice(run.payload)]
    ELSE NoTrip

\* self.buffer[next_id] with next_id past the end: the call panics.
OutOfRange(max, next_id) ==
    /\ UNCHANGED <<buffer, recv, sent, split, rxSeen>>
    /\ last' = Call("panic", max, 0, next_id, FALSE, <<>>, FALSE, <<>>,
                    NoTrip, FALSE)

nothing_to_send_unless_asked(max) == to_send = 0

\* external.rs 101: tx returns Ok(0) at once.
nothing_to_send(max) == max = 0 \/ to_send = 0

\* external.rs 125: rx returns Ok(0) at once.
nothing_to_recv(max) == max = 0 \/ to_recv = 0

tx(max, w, q) ==
    IF nothing_to_send(max)
    THEN /\ UNCHANGED <<buffer, recv, sent, split, rxSeen>>
         /\ last' = Call("tx", max, 0, NoBuf, FALSE, <<>>, FALSE, <<>>,
                         NoTrip, FALSE)
    ELSE IF next_send \notin DOMAIN buffer THEN OutOfRange(max, next_send)
    ELSE LET next_id == next_send
             run == send(tx_flag, buffer[next_id], w, q)
             count == tx_count(run.flag)
         IN /\ buffer' = [buffer EXCEPT ![next_id] = run.payload]
            /\ sent' = sent + count
            /\ UNCHANGED <<recv, split, rxSeen>>
            /\ last' = Call("tx", max, count, next_id, TRUE, run.results,
                            was_sent(run.flag), <<>>,
                            SentToSelf(next_id, w, run), w # <<>>)

rx(max, q) ==
    IF nothing_to_recv(max)
    THEN /\ UNCHANGED <<buffer, recv, sent, split, rxSeen>>
         /\ last' = Call("rx", max, 0, NoBuf, FALSE, <<>>, FALSE, <<>>,
                         NoTrip, FALSE)
    ELSE IF next_recv \notin DOMAIN buffer THEN OutOfRange(max, next_recv)
    ELSE LET next_id == next_recv
             run == receive(rx_flag, buffer[next_id], q)
         IN /\ recv' = recv + rx_count
            /\ rxSeen' = rxSeen \cup {next_id}
            /\ UNCHANGED <<buffer, sent, split>>
            /\ last' = Call("rx", max, rx_count, next_id, run.invoked,
                            run.results, was_sent(run.flag), run.seen,
                            NoTrip, FALSE)

set_one_past_receive(at) ==
    /\ split' = at
    /\ UNCHANGED <<buffer, recv, sent, rxSeen>>
    /\ last' = Call("set_one_past_receive", at, 0, NoBuf, FALSE, <<>>, FALSE,
                    <<>>,
                    IF last.trip.stage = 1 /\ at > last.trip.idx
                    THEN [last.trip EXCEPT !.stage = 2] ELSE NoTrip,
                    FALSE)

reset_send ==
    /\ sent' = 0
    /\ UNCHANGED <<buffer, recv, split, rxSeen>>
    /\ last' = Call("reset_send", 0, 0, NoBuf, FALSE, <<>>, FALSE, <<>>,
                    NoTrip, FALSE)

reset_receive ==
    /\ recv' = 0
    /\ rxSeen' = {}
    /\ UNCHANGED <<buffer, sent, split>>
    /\ last' = Call("reset_receive", 0, 0, NoBuf, FALSE, <<>>, FALSE, <<>>,
                    NoTrip, FALSE)

new_send(buf) ==
    /\ buffer = buf
    /\ recv = 0
    /\ sent = 0
    /\ split = 0

new_recv(buf) ==
    /\ buffer = buf
    /\ recv = 0
    /\ sent = 0
    /\ split = buffer_len

NoCall ==
    [op |-> "new", max |-> 0, ret |-> 0, idx |-> NoBuf, invoked |-> FALSE,
     results |-> <<>>, was_sent |-> FALSE, seen |-> <<>>, trip |-> NoTrip,
     wrote |-> FALSE, drain |-> NoDrain,
     pre_sent |-> 0, pre_recv |-> 0, pre_split |-> 0,
     pre_seen |-> {}, pre_trip |-> NoTrip]

NicInit ==
    /\ \E buf \in [Indices -> BufContents] : new_send(buf) \/ new_recv(buf)
    /\ rxSeen = {}
    /\ last = NoCall

TxCall ==
    /\ \E max \in 0..MaxMax, w \in TxWrites, q \in 0..MaxQueue : tx(max, w, q)
    /\ UNCHANGED <<storage, rlast, upkt, ulast>>

RxCall ==
    /\ \E max \in 0..MaxMax, q \in 0..MaxQueue : rx(max, q)
    /\ UNCHANGED <<storage, rlast, upkt, ulast>>

SplitCall ==
    /\ \E at \in 0..(NumBuffers + 1) : set_one_past_receive(at)
    /\ UNCHANGED <<storage, rlast, upkt, ulast>>

ResetSendCall == reset_send /\ UNCHANGED <<storage, rlast, upkt, ulast>>

ResetReceiveCall == reset_receive /\ UNCHANGED <<storage, rlast, upkt, ulast>>

RouteIdle == storage = <<>> /\ rlast = <<>>
UdpIdle == upkt = <<>> /\ ulast = <<>>

Init == NicInit /\ RouteIdle /\ UdpIdle

Next ==
    \/ TxCall
    \/ RxCall
    \/ SplitCall
    \/ ResetSendCall
    \/ ResetReceiveCall

Spec == Init /\ [][Next]_vars

\* ------------------------------------------------- nic: polling until drained
\* A device as constructed, observed from then on.
DrainStart ==
    /\ \E buf \in [Indices -> BufContents] : new_send(buf) \/ new_recv(buf)
    /\ rxSeen = {}
    /\ last = [NoCall EXCEPT !.drain = StartDrain]

\* The split is set once, before polling begins.
DrainSplit ==
    /\ last.op = "new"
    /\ \E at \in 0..(NumBuffers + 1) : set_one_past_receive(at)
    /\ UNCHANGED <<storage, rlast, upkt, ulast>>

\* tx with a send handler that requests queueing in every call.
DrainTx ==
    /\ last.drain.tx.calls <= NumBuffers
    /\ \E max \in 0..MaxMax, w \in TxWrites, q \in 1..MaxQueue : tx(max, w, q)
    /\ UNCHANGED <<storage, rlast, upkt, ulast>>

DrainRx ==
    /\ last.drain.rx.calls <= NumBuffers
    /\ \E max \in 0..MaxMax, q \in 0..MaxQueue : rx(max, q)
    /\ UNCHANGED <<storage, rlast, upkt, ulast>>

InitDrain == DrainStart /\ RouteIdle /\ UdpIdle

DrainNext ==
    \/ DrainSplit
    \/ DrainTx
    \/ DrainRx

SpecDrain == InitDrain /\ [][DrainNext]_vars

\* ------------------------------------------------- wire: ip addresses and cidrs
\* An address is its bytes: 4 of them for IPv4, 16 for IPv6.
V4(a, b, c, d) == <<a, b, c, d>>
V6(a, b, c, d, e, f, g, h) ==
    << a \div 256, a % 256, b \div 256, b % 256, c \div 256, c % 256,
       d \div 256, d % 256, e \div 256, e % 256, f \div 256, f % 256,
       g \div 256, g % 256, h \div 256, h % 256 >>

is_v4(addr) == Len(addr) = 4

Cidr(address, prefix_len) == [address |-> address, prefix_len |-> prefix_len]

\* Whether every byte of addr is b.
AllBytes(addr, b) == \A i \in 1..Len(addr) : addr[i] = b

is_unicast(addr) ==
    IF is_v4(addr)
    THEN ~(AllBytes(addr, 255) \/ addr[1] \div 16 = 14 \/ AllBytes(addr, 0))
    ELSE ~(addr[1] = 255 \/ AllBytes(addr, 0))

Pow2(n) == 2 ^ n

\* The number of bits of byte i (from 1) that a prefix of prefix_len bits covers.
BitsOfByte(prefix_len, i) ==
    IF prefix_len >= 8 * i THEN 8
    ELSE IF prefix_len <= 8 * (i - 1) THEN 0
    ELSE prefix_len - 8 * (i - 1)

\* Cidr::contains_addr: the leading prefix_len bits agree (same family only).
contains_addr(cidr, addr) ==
    /\ Len(cidr.address) = Len(addr)
    /\ \A i \in 1..Len(addr) :
          LET drop == Pow2(8 - BitsOfByte(cidr.prefix_len, i))
          IN cidr.address[i] \div drop = addr[i] \div drop

\* The order of byte strings of one length.
RECURSIVE BytesLess(_, _, _)
BytesLess(a, b, i) ==
    IF i > Len(a) THEN FALSE
    ELSE IF a[i] # b[i] THEN a[i] < b[i]
    ELSE BytesLess(a, b, i + 1)

\* The order of IpCidr: IPv4 before IPv6, then by address, then by prefix_len.
CidrLess(x, y) ==
    IF Len(x.address) # Len(y.address) THEN Len(x.address) < Len(y.address)
    ELSE IF x.address # y.address THEN BytesLess(x.address, y.address, 1)
    ELSE x.prefix_len < y.prefix_len

CidrLe(x, y) == x = y \/ CidrLess(x, y)

\* ------------------------------------------------- time
None == [some |-> FALSE, at |-> 0]
Some(t) == [some |-> TRUE, at |-> t]

\* ------------------------------------------------- ip: routes
RouteCap == 2

GATEWAY_1 == V4(192, 168, 0, 1)
GATEWAY_2 == V4(192, 168, 0, 2)

ADDR_1B == V6(65152, 0, 0, 2, 0, 0, 0, 13)
ADDR_2B == V6(65152, 0, 0, 13156, 0, 0, 0, 21)
ADDR_OUTSIDE == V6(65152, 0, 0, 65535, 0, 0, 0, 1)
ADDR_MULTICAST == V6(65282, 0, 0, 0, 0, 0, 0, 1)

cidr_1 == Cidr(V6(65152, 0, 0, 2, 0, 0, 0, 0), 64)
cidr_2 == Cidr(V6(65152, 0, 0, 13156, 0, 0, 0, 0), 64)

DefaultV4 == Cidr(V4(0, 0, 0, 0), 0)
DefaultV6 == Cidr(V6(0, 0, 0, 0, 0, 0, 0, 0), 0)

\* The prefixes a caller stores; Cidr keeps the address it is given, so the
\* address of the last one has bits set beyond its prefix.
Prefixes ==
    { DefaultV4, Cidr(V4(10, 0, 0, 0), 8), Cidr(V4(10, 9, 0, 0), 8),
      DefaultV6, cidr_1, cidr_2 }

LookupAddrs ==
    { V4(10, 1, 2, 3), V4(8, 8, 8, 8), V4(255, 255, 255, 255),
      ADDR_1B, ADDR_2B, ADDR_OUTSIDE, ADDR_MULTICAST }

Instants == {0, 10, 11}

Route(via, preferred_until, expires_at) ==
    [via_router |-> via, preferred_until |-> preferred_until,
     expires_at |-> expires_at]

new_ipv4_gateway(gateway) == Route(gateway, None, None)

new_ipv6_gateway(gateway) == Route(gateway, None, None)

RouteVals ==
    { Route(GATEWAY_1, None, None),
      Route(GATEWAY_2, Some(10), Some(10)),
      Route(GATEWAY_2, Some(0), Some(10)) }

Keys(st) == { st[i].key : i \in 1..Len(st) }

IndexOf(st, key) == CHOOSE i \in 1..Len(st) : st[i].key = key

\* ManagedMap::insert on borrowed storage: replace an equal key, else fail
\* when every slot is taken, else insert in key order.
insert(st, key, route) ==
    IF key \in Keys(st)
    THEN LET i == IndexOf(st, key)
         IN [ok |-> TRUE, prev |-> <<st[i].route>>,
             storage |-> [st EXCEPT ![i] = [key |-> key, route |-> route]]]
    ELSE IF Len(st) >= RouteCap
    THEN [ok |-> FALSE, prev |-> <<>>, storage |-> st]
    ELSE LET below == SelectSeq(st, LAMBDA e : CidrLess(e.key, key))
             above == SelectSeq(st, LAMBDA e : CidrLess(key, e.key))
         IN [ok |-> TRUE, prev |-> <<>>,
             storage |-> below \o <<[key |-> key, route |-> route]>> \o above]

\* ManagedMap::remove.
remove(st, key) == SelectSeq(st, LAMBDA e : e.key # key)

\* ManagedMap::range((Unbounded, Included(bound))): the leading slots whose
\* keys are at or below the bound.
RECURSIVE range(_, _)
range(st, bound) ==
    IF st = <<>> \/ ~CidrLe(Head(st).key, bound) THEN <<>>
    ELSE <<Head(st)>> \o range(Tail(st), bound)

expired_or_unpreferred(route, timestamp) ==
    \/ route.expires_at.some /\ timestamp > route.expires_at.at
    \/ route.preferred_until.some /\ timestamp > route.preferred_until.at

expired_at_deadline(route, timestamp) ==
    route.expires_at.some /\ timestamp >= route.expires_at.at

\* route.rs 116-120: the candidate is skipped.
expired(route, timestamp) ==
    route.expires_at.some /\ timestamp > route.expires_at.at

selects_any(prefix, addr) == TRUE

\* route.rs 122-124: the candidate is returned.
selects(prefix, addr) == contains_addr(prefix, addr)

NoRoute == [tag |-> "None", via |-> <<>>, prefix |-> DefaultV4]
Found(e) == [tag |-> "Some", via |-> e.route.via_router, prefix |-> e.key]
Panicked == [tag |-> "panic", via |-> <<>>, prefix |-> DefaultV4]

\* The loop of lookup over the candidates, last to first.
RECURSIVE scan(_, _, _, _)
scan(cands, i, addr, timestamp) ==
    IF i = 0 THEN NoRoute
    ELSE IF expired(cands[i].route, timestamp)
    THEN scan(cands, i - 1, addr, timestamp)
    ELSE IF selects(cands[i].key, addr) THEN Found(cands[i])
    ELSE scan(cands, i - 1, addr, timestamp)

singleton(addr) == Cidr(addr, IF is_v4(addr) THEN 32 ELSE 128)

\* Routes::lookup; via is what the caller gets, prefix the key that matched.
lookup(st, addr, timestamp) ==
    IF ~is_unicast(addr) THEN Panicked
    ELSE LET cands == range(st, singleton(addr))
         IN scan(cands, Len(cands), addr, timestamp)

RCall(op, key, route, addr, at, res) ==
    [op |-> op, key |-> key, route |-> route, addr |-> addr, at |-> at,
     res |-> res, pre |-> storage]

NoRouteVal == Route(<<>>, None, None)

\* An insertion whose failure is reported as success.
Inserted_swallow(r) ==
    [tag |-> "Ok", prev |-> IF r.ok THEN r.prev ELSE <<>>, via |-> <<>>,
     prefix |-> DefaultV4]

\* The result of an insertion as Routes reports it.
Inserted(r) ==
    IF r.ok THEN [tag |-> "Ok", prev |-> r.prev, via |-> <<>>, prefix |-> DefaultV4]
    ELSE [tag |-> "Exhausted", prev |-> <<>>, via |-> <<>>, prefix |-> DefaultV4]

AddRoute(op, cidr, route) ==
    LET r == insert(storage, cidr, route)
    IN /\ storage' = r.storage
       /\ rlast' = RCall(op, cidr, route, <<>>, 0, Inserted(r))

RefuseWhenFull(op, cidr, route) ==
    IF Len(storage) >= RouteCap
    THEN /\ storage' = storage
         /\ rlast' = RCall(op, cidr, route, <<>>, 0,
                           Inserted([ok |-> FALSE, prev |-> <<>>]))
    ELSE AddRoute(op, cidr, route)

add_default_ipv4_route_refuses(gateway) ==
    RefuseWhenFull("add_default_ipv4_route", Cidr(V4(0, 0, 0, 0), 0),
                   new_ipv4_gateway(gateway))

add_default_ipv4_route(gateway) ==
    AddRoute("add_default_ipv4_route", Cidr(V4(0, 0, 0, 0), 0),
             new_ipv4_gateway(gateway))

add_default_ipv6_route(gateway) ==
    AddRoute("add_default_ipv6_route", Cidr(V6(0, 0, 0, 0, 0, 0, 0, 0), 0),
             new_ipv6_gateway(gateway))

\* Routes::update with a closure that inserts one route.
update_insert(cidr, route) == AddRoute("insert", cidr, route)

\* Routes::update with a closure that removes one route.
update_remove(cidr) ==
    /\ cidr \in Keys(storage)
    /\ storage' = remove(storage, cidr)
    /\ rlast' = RCall("remove", cidr, NoRouteVal, <<>>, 0, NoRoute)

Lookup(addr, timestamp) ==
    /\ storage' = storage
    /\ rlast' = RCall("lookup", DefaultV4, NoRouteVal, addr, timestamp,
                      lookup(storage, addr, timestamp))

NicIdle ==
    /\ new_send([i \in Indices |-> <<>>])
    /\ rxSeen = {}
    /\ last = NoCall

RouteInit ==
    /\ storage = <<>>
    /\ rlast = RCall("new", DefaultV4, NoRouteVal, <<>>, 0, NoRoute)

AddDefaultV4 ==
    /\ \E g \in {GATEWAY_1, GATEWAY_2} : add_default_ipv4_route(g)
    /\ UNCHANGED <<buffer, recv, sent, split, rxSeen, last, upkt, ulast>>

AddDefaultV6 ==
    /\ \E g \in {ADDR_1B, ADDR_2B} : add_default_ipv6_route(g)
    /\ UNCHANGED <<buffer, recv, sent, split, rxSeen, last, upkt, ulast>>

UpdateInsert ==
    /\ \E c \in Prefixes, r \in RouteVals : update_insert(c, r)
    /\ UNCHANGED <<buffer, recv, sent, split, rxSeen, last, upkt, ulast>>

UpdateRemove ==
    /\ \E c \in Prefixes : update_remove(c)
    /\ UNCHANGED <<buffer, recv, sent, split, rxSeen, last, upkt, ulast>>

LookupCall ==
    /\ \E a \in LookupAddrs, t \in Instants : Lookup(a, t)
    /\ UNCHANGED <<buffer, recv, sent, split, rxSeen, last, upkt, ulast>>

RouteNext ==
    \/ AddDefaultV4
    \/ AddDefaultV6
    \/ UpdateInsert
    \/ UpdateRemove
    \/ LookupCall

InitRoute == RouteInit /\ NicIdle /\ UdpIdle

SpecRoute == InitRoute /\ [][RouteNext]_vars

\* ------------------------------------------------- udp: packets
\* The largest count the model represents, standing for usize::MAX.
USIZE_MAX == Pow2(24) - 1
U16_MAX == Pow2(16) - 1

UDP_HEADER_LEN == 8

\* A sum that is passed on unchecked.
checked_add_unchecked(a, b) == <<a + b>>

\* usize::checked_add: <<>> on overflow.
checked_add(a, b) == IF a + b > USIZE_MAX THEN <<>> ELSE <<a + b>>

\* u16::try_from: <<>> when the value does not fit.
u16_try_from(n) == IF n > U16_MAX THEN <<>> ELSE <<n>>

Ports == {43, 9400}
PayloadLens == {0, 13, U16_MAX - 8, U16_MAX - 7, USIZE_MAX - 7}

\* udp::Init; source and dst_addr are handed to the ip layer untouched, of
\* them the model keeps the address family.
Inits ==
    { [src_port |-> p[1], dst_port |-> p[2], payload |-> n, ip |-> f] :
        p \in {q \in Ports \X Ports : q[1] # q[2]}, n \in PayloadLens,
        f \in {"v4", "v6"} }

NoInit == [src_port |-> 0, dst_port |-> 0, payload |-> 0, ip |-> "v4"]

\* What the ip layer below answers to prepare.
LowerResults == {"Ok", "BadSize", "Unreachable", "Illegal", "Exhausted"}

\* layer::Error.
LayerErrors == LowerResults \ {"Ok"}

\* Two wire::Error values.
WireErrors == {"Truncated", "Malformed"}

\* wire::PayloadError.
PayloadErrors == {"BadSize"}

from_wire_badsize(err) == "BadSize"

\* impl From<wire::Error> for Error.
from_wire(err) == "Illegal"

\* impl From<wire::PayloadError> for Error.
from_payload(err) == CASE err = "BadSize" -> "BadSize"

\* Why the ip layer below fails, if it does: a layer error of its own, or a
\* wire or payload error it converts on the way up.
NoCause == [kind |-> "none", err |-> "Ok"]

LowerCauses ==
    {NoCause}
        \cup [kind : {"layer"}, err : LayerErrors]
        \cup [kind : {"wire"}, err : WireErrors]
        \cup [kind : {"payload"}, err : PayloadErrors]

\* The result the udp layer gets from below.
Raised(cause) ==
    CASE cause.kind = "none" -> "Ok"
      [] cause.kind = "layer" -> cause.err
      [] cause.kind = "wire" -> from_wire(cause.err)
      [] cause.kind = "payload" -> from_payload(cause.err)

IPV4_HEADER_LEN == 20
IPV6_HEADER_LEN == 40

ip_header_len(init) ==
    IF init.ip = "v4" THEN IPV4_HEADER_LEN ELSE IPV6_HEADER_LEN

\* The number of bytes after the udp header that the model tracks.
BodyShown == 2

HELLO == <<72, 101, 108, 108, 111>>

\* The bytes of the buffer above the ip header: where they start, how many
\* they are, the 8 bytes of the udp header as its four fields, and the
\* first BodyShown bytes of the backing buffer that follow the header.
Region(off, len, src_port, dst_port, length, checksum, body) ==
    [off |-> off, len |-> len,
     header |-> [src_port |-> src_port, dst_port |-> dst_port,
                 length |-> length, checksum |-> checksum],
     body |-> body]

\* Buffers as a device hands them out.
ReceivedRegions ==
    { Region(IPV4_HEADER_LEN, UDP_HEADER_LEN + 13, 9400, 43,
             UDP_HEADER_LEN + 13, 0, SubSeq(HELLO, 1, BodyShown)),
      Region(IPV4_HEADER_LEN, UDP_HEADER_LEN, 43, 43, UDP_HEADER_LEN, 0,
             [i \in 1..BodyShown |-> 0]) }

\* What a handler copies into the payload.
FillBytes == { SubSeq(HELLO, 1, BodyShown), [i \in 1..BodyShown |-> 7] }

Repr(src_port, dst_port, length) ==
    [src_port |-> src_port, dst_port |-> dst_port, length |-> length]

NoRepr == Repr(0, 0, 0)

\* An emission that also clears what follows the header.
initialize_clearing(init, region) ==
    LET length == u16_try_from(init.payload + UDP_HEADER_LEN) IN
    IF length = <<>>
    THEN [ok |-> FALSE, err |-> "BadSize", repr |-> NoRepr, region |-> region]
    ELSE [ok |-> TRUE, err |-> "Ok",
          repr |-> Repr(init.src_port, init.dst_port, length[1]),
          region |-> [region EXCEPT !.header.src_port = init.src_port,
                                    !.header.dst_port = init.dst_port,
                                    !.header.length = length[1],
                                    !.body = [i \in 1..BodyShown |-> 0]]]

\* An emission that flips the checksum field it finds.
initialize_flipping(init, region) ==
    LET length == u16_try_from(init.payload + UDP_HEADER_LEN) IN
    IF length = <<>>
    THEN [ok |-> FALSE, err |-> "BadSize", repr |-> NoRepr, region |-> region]
    ELSE [ok |-> TRUE, err |-> "Ok",
          repr |-> Repr(init.src_port, init.dst_port, length[1]),
          region |-> [region EXCEPT !.header.src_port = init.src_port,
                                    !.header.dst_port = init.dst_port,
                                    !.header.length = length[1],
                                    !.header.checksum = 1 - @]]

\* Init::initialize: the representation, and the header emitted into the
\* region with the checksum left alone.
initialize(init, region) ==
    LET length == u16_try_from(init.payload + UDP_HEADER_LEN) IN
    IF length = <<>>
    THEN [ok |-> FALSE, err |-> "BadSize", repr |-> NoRepr, region |-> region]
    ELSE [ok |-> TRUE, err |-> "Ok",
          repr |-> Repr(init.src_port, init.dst_port, length[1]),
          region |-> [region EXCEPT !.header.src_port = init.src_port,
                                    !.header.dst_port = init.dst_port,
                                    !.header.length = length[1]]]

\* ip::RawPacket::prepare as far as the udp layer sees it: on success the
\* region above the ip header starts after the ip header of the init's
\* family and has the requested length; the bytes are moved along with it.
ip_prepare(region, off, payload_len, lower) ==
    IF lower = "Ok" THEN [region EXCEPT !.off = off, !.len = payload_len]
    ELSE region

UPacket(kind, handle, prepared, repr, region) ==
    [kind |-> kind, handle |-> handle, prepared |-> prepared, repr |-> repr,
     region |-> region]

NoPacket ==
    UPacket("none", NotPossible, FALSE, NoRepr,
            Region(0, 0, 0, 0, 0, 0, [i \in 1..BodyShown |-> 0]))

\* The header a successful prepare left in the buffer, and its init.
NoEmit ==
    [valid |-> FALSE, init |-> NoInit, off |-> 0, len |-> 0,
     header |-> NoPacket.region.header]

Emit(init, region) ==
    [valid |-> TRUE, init |-> init, off |-> region.off, len |-> region.len,
     header |-> region.header]

UCall(op, res, init, cause, asked, emitted, left) ==
    [op |-> op, res |-> res, init |-> init, cause |-> cause,
     asked |-> asked, emitted |-> emitted, left |-> left,
     pre |-> upkt,
     pre_emitted |-> IF op = "prepare" THEN ulast.emitted ELSE NoEmit]

\* RawPacket::prepare of the raw buffer p; an error drops the handler's
\* hold on the buffer. asked is the payload length requested from the ip
\* layer, if it was asked; left is the region as the call leaves it in the
\* device's buffer.
prepared_from(p, init, cause) ==
    LET packet_len == checked_add(init.payload, UDP_HEADER_LEN) IN
    IF packet_len = <<>>
    THEN [res |-> "BadSize", pkt |-> NoPacket, asked |-> <<>>,
          cause |-> NoCause, left |-> p.region]
    ELSE LET lower == Raised(cause) IN
         IF lower # "Ok"
         THEN [res |-> lower, pkt |-> NoPacket, asked |-> packet_len,
               cause |-> cause, left |-> p.region]
         ELSE LET below == ip_prepare(p.region, ip_header_len(init),
                                      packet_len[1], lower)
                  done == initialize(init, below)
              IN IF ~done.ok
                 THEN [res |-> done.err, pkt |-> NoPacket,
                       asked |-> packet_len, cause |-> cause,
                       left |-> done.region]
                 ELSE [res |-> "Ok",
                       pkt |-> UPacket("Packet", p.handle, TRUE, done.repr,
                                       done.region),
                       asked |-> packet_len, cause |-> cause,
                       left |-> done.region]

Prepared(op, r, init) ==
    UCall(op, r.res, init, r.cause, r.asked,
          IF r.res = "Ok" THEN Emit(init, r.pkt.region) ELSE NoEmit, r.left)

\* A deinit that hands back the header only.
deinit_of_truncating(p) ==
    UPacket("RawPacket", p.handle, FALSE, NoRepr,
            [p.region EXCEPT !.len = UDP_HEADER_LEN])

\* Packet::deinit: the raw buffer of a packet.
deinit_of(p) == UPacket("RawPacket", p.handle, FALSE, NoRepr, p.region)

udp_prepare(init, cause) ==
    /\ upkt.kind = "RawPacket"
    /\ LET r == prepared_from(upkt, init, cause)
       IN /\ upkt' = r.pkt
          /\ ulast' = Prepared("prepare", r, init)

udp_deinit ==
    /\ upkt.kind = "Packet"
    /\ upkt' = deinit_of(upkt)
    /\ ulast' = UCall("deinit", "Ok", NoInit, NoCause, <<>>, ulast.emitted,
                      upkt'.region)

udp_reinit(init, cause) ==
    /\ upkt.kind = "Packet"
    /\ LET r == prepared_from(deinit_of(upkt), init, cause)
       IN /\ upkt' = r.pkt
          /\ ulast' = Prepared("reinit", r, init)

\* The handler copies bytes into the payload of its packet.
udp_fill(bytes) ==
    /\ upkt.kind = "Packet"
    /\ upkt.region.len > UDP_HEADER_LEN
    /\ upkt' = [upkt EXCEPT !.region.body =
                   [i \in 1..BodyShown |->
                       IF i <= upkt.region.len - UDP_HEADER_LEN
                       THEN bytes[i] ELSE @[i]]]
    /\ ulast' = UCall("fill", "Ok", NoInit, NoCause, <<>>, ulast.emitted,
                      upkt'.region)

\* Packet::send: fill the checksum as the device asks, then queue below.
udp_send(checksum) ==
    /\ upkt.kind = "Packet"
    /\ LET lower == queue(upkt.handle)
       IN /\ upkt' = UPacket("none", lower.flag, upkt.prepared, upkt.repr,
                             [upkt.region EXCEPT !.header.checksum = checksum])
          /\ ulast' = UCall("send", lower.res, NoInit,
                            IF lower.res = "Ok" THEN NoCause
                            ELSE [kind |-> "layer", err |-> lower.res],
                            <<>>, NoEmit, upkt'.region)

\* The udp Sender hands the handler a raw buffer of a tx call.
udp_poll_tx(region) ==
    /\ upkt.kind = "none"
    /\ upkt' = UPacket("RawPacket", tx_flag, FALSE, NoRepr, region)
    /\ ulast' = UCall("poll_tx", "Ok", NoInit, NoCause, <<>>, NoEmit,
                      upkt'.region)

\* The udp Receiver hands the handler the packet parsed from an rx buffer.
udp_poll_rx(region) ==
    /\ upkt.kind = "none"
    /\ upkt' = UPacket("Packet", rx_flag, FALSE,
                       Repr(region.header.src_port, region.header.dst_port,
                            region.header.length), region)
    /\ ulast' = UCall("poll_rx", "Ok", NoInit, NoCause, <<>>, NoEmit,
                      upkt'.region)

\* The handler returns without using the buffer further.
udp_return ==
    /\ upkt.kind \in {"RawPacket", "Packet"}
    /\ upkt' = NoPacket
    /\ ulast' = UCall("return", "Ok", NoInit, NoCause, <<>>, NoEmit,
                      upkt'.region)

UdpInit ==
    /\ upkt = NoPacket
    /\ ulast = [op |-> "new", res |-> "Ok", init |-> NoInit,
                cause |-> NoCause, asked |-> <<>>, emitted |-> NoEmit,
                left |-> NoPacket.region, pre |-> NoPacket, pre_emitted |-> NoEmit]

UdpPrepare ==
    /\ \E init \in Inits, cause \in LowerCauses : udp_prepare(init, cause)
    /\ UNCHANGED <<buffer, recv, sent, split, rxSeen, last, storage, rlast>>

UdpDeinit ==
    /\ udp_deinit
    /\ UNCHANGED <<buffer, recv, sent, split, rxSeen, last, storage, rlast>>

UdpReinit ==
    /\ \E init \in Inits, cause \in LowerCauses : udp_reinit(init, cause)
    /\ UNCHANGED <<buffer, recv, sent, split, rxSeen, last, storage, rlast>>

UdpFill ==
    /\ \E bytes \in FillBytes : udp_fill(bytes)
    /\ UNCHANGED <<buffer, recv, sent, split, rxSeen, last, storage, rlast>>

UdpSend ==
    /\ \E checksum \in {0, 1} : udp_send(checksum)
    /\ UNCHANGED <<buffer, recv, sent, split, rxSeen, last, storage, rlast>>

UdpPollTx ==
    /\ \E region \in ReceivedRegions : udp_poll_tx(region)
    /\ UNCHANGED <<buffer, recv, sent, split, rxSeen, last, storage, rlast>>

UdpPollRx ==
    /\ \E region \in ReceivedRegions : udp_poll_rx(region)
    /\ UNCHANGED <<buffer, recv, sent, split, rxSeen, last, storage, rlast>>

UdpReturn ==
    /\ udp_return
    /\ UNCHANGED <<buffer, recv, sent, split, rxSeen, last, storage, rlast>>

UdpNext ==
    \/ UdpPollTx
    \/ UdpPollRx
    \/ UdpPrepare
    \/ UdpDeinit
    \/ UdpReinit
    \/ UdpFill
    \/ UdpSend
    \/ UdpReturn

InitUdp == UdpInit /\ NicIdle /\ RouteIdle

SpecUdp == InitUdp /\ [][UdpNext]_vars

\* ------------------------------------------------- device and endpoint properties
PreToSend == saturating_sub(saturating_sub(buffer_len, last.pre_split), last.pre_sent)
PreToRecv == saturating_sub(Min(buffer_len, last.pre_split), last.pre_recv)

\* C1: a tx call with max >= 1 and a buffer left to send returns 1 exactly when
\* the send handler requested queueing during that call, and 0 otherwise,
\* whatever earlier calls queued.
C1_TxCountIffQueued ==
    (last.op = "tx" /\ last.max >= 1 /\ PreToSend > 0) =>
        /\ last.invoked
        /\ (last.ret = 1 <=> Len(last.results) >= 1)
        /\ (last.ret = 0 <=> Len(last.results) = 0)

\* A send handler that declines after an earlier call was queued.
C1_Witness ==
    /\ last.op = "tx" /\ last.max >= 1 /\ PreToSend > 0
    /\ last.pre_sent >= 1
    /\ last.results = <<>>
    /\ last.ret = 0

\* C2: during rx every queue request on the handle is rejected as Illegal, the
\* handle never reports was_sent, and rx leaves the sent counter alone.
C2_RxHandleNotPossible ==
    last.op = "rx" =>
        /\ \A i \in 1..Len(last.results) : last.results[i] = "Illegal"
        /\ ~last.was_sent
        /\ sent = last.pre_sent

\* A receive handler that was invoked and tried to queue.
C2_Witness ==
    /\ last.op = "rx" /\ last.invoked
    /\ Len(last.results) >= 1

\* C3: the count returned by tx or rx lies in 0..max, the call's cursor
\* advances by exactly that count, and at most one buffer is handed out.
C3_CountBounded ==
    last.op \in {"tx", "rx"} =>
        /\ last.ret \in 0..last.max
        /\ last.ret <= 1
        /\ (last.invoked => last.idx \in Indices)
        /\ (last.ret = 1 => last.idx \in Indices)
        /\ (last.op = "tx" => sent = last.pre_sent + last.ret /\ recv = last.pre_recv)
        /\ (last.op = "rx" => recv = last.pre_recv + last.ret /\ sent = last.pre_sent)

\* A call allowed more than one buffer, with more than one available, that
\* still processed one.
C3_Witness ==
    /\ last.op = "rx" /\ last.max >= 2 /\ PreToRecv >= 2
    /\ last.ret = 1

\* C4: the Ethernet Receiver invokes the upper handler exactly for a buffer
\* that holds a whole header whose destination is the endpoint's address or
\* the broadcast address; otherwise it drops the buffer without an error.
C4_HandlerIffAccepted ==
    (last.op = "rx" /\ last.idx \in Indices) =>
        LET b == buffer[last.idx] IN
        /\ last.invoked <=>
              /\ Len(b) >= 14
              /\ \/ SubSeq(b, 1, 6) = MAC_ADDR_1
                 \/ SubSeq(b, 1, 6) = <<255, 255, 255, 255, 255, 255>>
        /\ (~last.invoked => last.results = <<>> /\ last.ret = 1)

\* A well-formed frame for a foreign unicast address was dropped.
C4_Witness ==
    /\ last.op = "rx" /\ last.idx \in Indices
    /\ Len(buffer[last.idx]) >= 14
    /\ SubSeq(buffer[last.idx], 1, 6) = MAC_OTHER
    /\ ~last.invoked

\* C5: an rx call with max >= 1 and a buffer available returns 1 and advances
\* recv by one, also when the Receiver drops the buffer; the buffer handed out
\* is one not handed out since the last reset_receive.
C5_RxCountsDropped ==
    (last.op = "rx" /\ last.max >= 1 /\ PreToRecv > 0) =>
        /\ last.ret = 1
        /\ recv = last.pre_recv + 1
        /\ last.idx = last.pre_recv
        /\ last.idx \notin last.pre_seen
        /\ rxSeen = last.pre_seen \cup {last.idx}

\* A dropped (truncated) buffer was counted, after another was received.
C5_Witness ==
    /\ last.op = "rx" /\ last.idx \in Indices
    /\ ~last.invoked
    /\ Len(buffer[last.idx]) < 14
    /\ last.pre_seen # {}
    /\ last.ret = 1

\* A tx call whose send handler returned without preparing or queueing.
Declined ==
    /\ last.op = "tx"
    /\ last.invoked
    /\ ~last.wrote
    /\ last.results = <<>>

\* C21: a send handler that returns without prepare or send leaves the tx
\* call without effect on its buffer: tx returns 0, the cursors, the split
\* and the buffer bytes are as before, and the next tx presents the same
\* index again.
C21_DeclinedTxIsNoOp ==
    [][Declined' =>
          /\ last'.ret = 0
          /\ UNCHANGED <<buffer, recv, sent, split>>
          /\ to_send' > 0
          /\ next_send' = last'.idx]_vars

C21_Witness ==
    /\ Declined
    /\ last.ret = 0
    /\ last.pre_sent >= 1
    /\ next_send = last.idx

\* A tx or rx call made with max = 0 or with nothing left in its region.
IdleCall ==
    \/ last.op = "tx" /\ (last.max = 0 \/ PreToSend = 0)
    \/ last.op = "rx" /\ (last.max = 0 \/ PreToRecv = 0)

\* C22: a tx or rx call with max = 0, or with no buffer left in its region,
\* returns 0 without invoking the handler and leaves sent, recv, split and
\* the buffers as they were.
C22_IdleCallIsNoOp ==
    [][IdleCall' =>
          /\ last'.ret = 0
          /\ ~last'.invoked
          /\ last'.idx = NoBuf
          /\ UNCHANGED <<buffer, recv, sent, split>>]_vars

\* A tx with max = 0 while a buffer waits, and an rx with none left.
C22_Witness ==
    /\ IdleCall
    /\ last.ret = 0
    /\ ~last.invoked
    /\ \/ last.op = "tx" /\ last.max = 0 /\ to_send > 0
       \/ last.op = "rx" /\ last.max >= 1 /\ to_recv = 0 /\ recv >= 1

\* A tx or rx call that handed a buffer to its handler.
Handed == last.op \in {"tx", "rx"} /\ last.idx # NoBuf

\* C24: whatever calls came before, the index of a buffer handed to a
\* handler is below the number of buffers: tx uses split + sent and only
\* when n - split - sent, saturating, is positive; rx uses recv and only
\* when min(n, split) - recv, saturating, is positive; no call indexes out
\* of range.
C24_IndexInRange ==
    /\ last.op # "panic"
    /\ Handed =>
          /\ last.idx >= 0
          /\ last.idx < buffer_len
          /\ last.op = "tx" =>
                /\ last.idx = last.pre_split + last.pre_sent
                /\ buffer_len - last.pre_split - last.pre_sent > 0
          /\ last.op = "rx" =>
                /\ last.idx = last.pre_recv
                /\ Min(buffer_len, last.pre_split) - last.pre_recv > 0
    /\ (last.op = "tx" /\ last.pre_split + last.pre_sent >= buffer_len) =>
          last.idx = NoBuf /\ last.ret = 0
    /\ (last.op = "rx" /\ last.pre_recv >= Min(buffer_len, last.pre_split)) =>
          last.idx = NoBuf /\ last.ret = 0

\* The last buffer is received with the split set beyond the buffers,
\* after sends have moved the send cursor.
C24_Witness ==
    /\ Handed
    /\ last.op = "rx"
    /\ last.pre_split > buffer_len
    /\ last.pre_split + last.pre_sent > buffer_len + 1
    /\ last.idx = buffer_len - 1

\* C25: for the current split the two regions are disjoint: an index rx
\* hands out is below the split and an index tx hands out is at or above it;
\* with the split where new_send leaves it there is nothing to receive, and
\* with the split where new_recv leaves it there is nothing to send.
C25_RegionsDisjoint ==
    /\ to_recv > 0 => next_recv < split
    /\ to_send > 0 => next_send >= split
    /\ (Handed /\ last.op = "rx") => last.idx < last.pre_split
    /\ (Handed /\ last.op = "tx") => last.idx >= last.pre_split
    /\ split = 0 => to_recv = 0
    /\ split = buffer_len => to_send = 0
    /\ (last.op = "rx" /\ last.pre_split = 0) => ~Handed
    /\ (last.op = "tx" /\ last.pre_split = buffer_len) => ~Handed

\* A buffer is sent, the split is moved above it, and it is received.
C25_Witness ==
    /\ Handed
    /\ last.op = "rx"
    /\ last.pre_trip.stage = 2
    /\ last.idx = last.pre_trip.idx
    /\ last.idx < last.pre_split
    /\ last.idx >= 0

\* The buffers in the send region and in the receive region.
SendRegion == saturating_sub(buffer_len, split)
RecvRegion == Min(buffer_len, split)

\* The first k indices from a start on, in increasing order.
Ascending(from, k) == [i \in 1..k |-> from + i - 1]

\* C26: with the split fixed, no resets and a send handler that queues in
\* every call, the first n - split tx calls with max >= 1 present the send
\* buffers once each in increasing order, after them to_send is 0 and every
\* later tx returns 0 without its handler; the same holds for rx and
\* min(n, split); the counts returned never add up to more than the region.
C26_PollingDrains ==
    last.drain.on =>
        LET t == last.drain.tx
            r == last.drain.rx
        IN /\ t.sum <= SendRegion
           /\ r.sum <= RecvRegion
           /\ t.seq = Ascending(split, Min(t.calls, SendRegion))
           /\ r.seq = Ascending(0, Min(r.calls, RecvRegion))
           /\ t.sum = Min(t.calls, SendRegion)
           /\ r.sum = Min(r.calls, RecvRegion)
           /\ t.calls >= SendRegion => to_send = 0 /\ sent = SendRegion
           /\ r.calls >= RecvRegion => to_recv = 0 /\ recv = RecvRegion
           /\ (last.op = "tx" /\ last.max >= 1 /\ t.calls > SendRegion) =>
                 last.ret = 0 /\ ~last.invoked
           /\ (last.op = "rx" /\ last.max >= 1 /\ r.calls > RecvRegion) =>
                 last.ret = 0 /\ ~last.invoked

\* Both regions hold a buffer and both were polled once more than they hold.
C26_Witness ==
    /\ last.drain.on
    /\ SendRegion >= 1
    /\ RecvRegion >= 1
    /\ last.drain.tx.calls = SendRegion + 1
    /\ last.drain.rx.calls = RecvRegion + 1
    /\ last.drain.tx.sum = SendRegion
    /\ last.op = "tx"
    /\ last.ret = 0

\* C20: queueing on the handle of a tx call is idempotent: when the sender
\* requests it once or more often, every request succeeds, the flag is set,
\* tx returns 1 and the sent cursor has advanced by exactly one.
C20_QueueIdempotent ==
    (last.op = "tx" /\ last.invoked /\ Len(last.results) >= 1) =>
        /\ \A i \in 1..Len(last.results) : last.results[i] = "Ok"
        /\ last.was_sent
        /\ last.ret = 1
        /\ sent = last.pre_sent + 1

C20_Witness ==
    /\ last.op = "tx"
    /\ last.invoked
    /\ Len(last.results) >= 2
    /\ last.ret = 1
    /\ sent = last.pre_sent + 1

\* The rx call that follows a round trip's tx and set_one_past_receive.
AfterRoundTrip ==
    last.op = "rx" /\ last.max >= 1 /\ last.pre_trip.stage = 2

Delivered ==
    /\ last.ret = 1
    /\ last.invoked
    /\ last.seen = last.pre_trip.p

\* C17 as stated: tx queues a frame the send handler addressed to the
\* endpoint with payload p, set_one_past_receive moves the split above that
\* buffer, and the rx that follows returns 1 and hands the receive handler a
\* frame with payload p.
C17_RoundTrip == AfterRoundTrip => Delivered

\* C17, amended: the same, when the receive cursor stands at the buffer that
\* tx wrote, as it does on a device made by new_send whose first tx this is.
C17_RoundTripAtCursor ==
    (AfterRoundTrip /\ last.pre_recv = last.pre_trip.idx) => Delivered

C17_Witness ==
    /\ AfterRoundTrip
    /\ last.pre_recv = last.pre_trip.idx
    /\ Delivered
    /\ last.seen = PAYLOAD_BYTES

\* ------------------------------------------------- routing table properties
\* A route is valid at now: it never expires, or now is not after expires_at.
Live(route, now) == ~route.expires_at.some \/ now <= route.expires_at.at

IsLookup == rlast.op = "lookup" /\ is_unicast(rlast.addr)

\* The slots whose prefix contains the looked-up address.
Containing == { i \in 1..Len(storage) : contains_addr(storage[i].key, rlast.addr) }

\* Those of them that the scan of lookup visits.
Visited == { i \in Containing : CidrLe(storage[i].key, singleton(rlast.addr)) }

\* C7: lookup returns the gateway of the longest prefix in the table that
\* contains the address and is not expired, and no route when there is none,
\* for every prefix stored in the table.
C7_LongestPrefixMatch ==
    IsLookup =>
        LET M == { i \in Containing : Live(storage[i].route, rlast.at) }
        IN IF M = {} THEN rlast.res.tag = "None"
           ELSE /\ rlast.res.tag = "Some"
                /\ \E i \in M :
                      /\ storage[i].route.via_router = rlast.res.via
                      /\ \A j \in M :
                            storage[j].key.prefix_len <= storage[i].key.prefix_len

RouteOf(st, key) == st[IndexOf(st, key)].route

\* The table holds a valid route for key, a /64 prefix whose first 64 bits are
\* those of the looked-up address.
Owed(key) ==
    /\ key \in Keys(storage)
    /\ Len(rlast.addr) = 16
    /\ SubSeq(rlast.addr, 1, 8) = SubSeq(key.address, 1, 8)
    /\ Live(RouteOf(storage, key), rlast.at)

\* C9: with at most the two disjoint /64 routes in the table, in whichever
\* order they were inserted, an address inside the prefix of a stored (valid)
\* route gets that route's gateway and every other address gets no route.
C9_DisjointRoutes ==
    (IsLookup /\ Keys(storage) \subseteq {cidr_1, cidr_2}) =>
        IF Owed(cidr_1)
        THEN rlast.res.tag = "Some"
             /\ rlast.res.via = RouteOf(storage, cidr_1).via_router
        ELSE IF Owed(cidr_2)
        THEN rlast.res.tag = "Some"
             /\ rlast.res.via = RouteOf(storage, cidr_2).via_router
        ELSE rlast.res.tag = "None"

\* Both routes are stored and an address of the second one is looked up.
C9_Witness ==
    /\ IsLookup
    /\ Keys(storage) = {cidr_1, cidr_2}
    /\ rlast.addr = ADDR_2B
    /\ rlast.res.tag = "Some"
    /\ rlast.res.via = RouteOf(storage, cidr_2).via_router
    /\ rlast.res.via # RouteOf(storage, cidr_1).via_router

IsAddDefault == rlast.op \in {"add_default_ipv4_route", "add_default_ipv6_route"}

\* C10: adding a default route when one is stored replaces it, returns the
\* displaced route and keeps the number of entries, also in full storage;
\* when none is stored and there is room it returns no previous route and
\* the table grows by one.
C10_InsertReplaces ==
    IsAddDefault =>
        LET pre == rlast.pre
            key == rlast.key
        IN /\ key = IF rlast.op = "add_default_ipv4_route"
                    THEN DefaultV4 ELSE DefaultV6
           /\ key \in Keys(pre) =>
                 /\ rlast.res.tag = "Ok"
                 /\ rlast.res.prev = <<RouteOf(pre, key)>>
                 /\ Len(storage) = Len(pre)
                 /\ \A i \in 1..Len(pre) :
                       /\ storage[i].key = pre[i].key
                       /\ storage[i].route =
                             IF pre[i].key = key THEN rlast.route ELSE pre[i].route
           /\ (key \notin Keys(pre) /\ Len(pre) < RouteCap) =>
                 /\ rlast.res.tag = "Ok"
                 /\ rlast.res.prev = <<>>
                 /\ Len(storage) = Len(pre) + 1
                 /\ key \in Keys(storage)
                 /\ RouteOf(storage, key) = rlast.route
                 /\ \A i \in 1..Len(pre) :
                       RouteOf(storage, pre[i].key) = pre[i].route

\* A default route was replaced by a different one in full storage.
C10_Witness ==
    /\ rlast.op = "add_default_ipv4_route"
    /\ Len(rlast.pre) = RouteCap
    /\ rlast.key \in Keys(rlast.pre)
    /\ rlast.res.tag = "Ok"
    /\ rlast.res.prev # <<rlast.route>>

\* ------------------------------------------------- packet state properties
\* C6: send only ever runs on a packet that a successful prepare at the udp
\* layer produced; never on a packet parsed from received data.
C6_SendOnlyAfterPrepare ==
    ulast.op = "send" => ulast.pre.prepared

\* C11: a default route for a prefix the table does not hold, added while the
\* fixed-capacity storage is full, fails with Exhausted; the table is then
\* what it was before the call and every lookup answers as it did before.
C11_ExhaustedKeepsTable ==
    (IsAddDefault /\ rlast.key \notin Keys(rlast.pre)
                  /\ Len(rlast.pre) >= RouteCap) =>
        /\ rlast.res.tag = "Exhausted"
        /\ storage = rlast.pre
        /\ \A a \in LookupAddrs, t \in Instants :
               lookup(storage, a, t) = lookup(rlast.pre, a, t)

C11_Witness ==
    /\ IsAddDefault
    /\ rlast.key \notin Keys(rlast.pre)
    /\ Len(rlast.pre) >= RouteCap
    /\ rlast.res.tag = "Exhausted"
    /\ \E a \in LookupAddrs : lookup(rlast.pre, a, 0).tag = "Some"

\* C18: lookup never ends the process: for every single-host address,
\* broadcast and multicast addresses included, and every timestamp, it
\* completes and yields a gateway or no route as a value.
C18_LookupIsTotal ==
    rlast.op = "lookup" => rlast.res.tag \in {"Some", "None"}

PreferredVals == {None, Some(0), Some(10)}

\* The table st with the preferred_until of its i-th route replaced by p[i].
WithPreferred(st, p) ==
    [i \in 1..Len(st) |->
        [key |-> st[i].key,
         route |-> Route(st[i].route.via_router, p[i], st[i].route.expires_at)]]

\* C19: selection does not read preferred_until: every table with the same
\* prefixes, gateways and expires_at as the one looked up, whatever its
\* preferred_until values, gives the same lookup result for the same address
\* and timestamp.
C19_PreferredUntilIgnored ==
    rlast.op = "lookup" =>
        \A p \in [1..Len(rlast.pre) -> PreferredVals] :
            lookup(WithPreferred(rlast.pre, p), rlast.addr, rlast.at).via
                = rlast.res.via
            /\ lookup(WithPreferred(rlast.pre, p), rlast.addr, rlast.at).tag
                = rlast.res.tag

\* A lookup that returns a route after its preferred_until has passed.
C19_Witness ==
    /\ rlast.op = "lookup"
    /\ rlast.res.tag = "Some"
    /\ \E i \in 1..Len(rlast.pre) :
          /\ rlast.pre[i].key = rlast.res.prefix
          /\ rlast.pre[i].route.preferred_until.some
          /\ rlast.at > rlast.pre[i].route.preferred_until.at

\* C13: deinit of a parsed packet succeeds and gives the raw buffer with the
\* bytes and the length it had before the call; only the parsed
\* representation is gone.
C13_DeinitKeepsBuffer ==
    ulast.op = "deinit" =>
        /\ ulast.res = "Ok"
        /\ upkt.kind = "RawPacket"
        /\ upkt.region = ulast.pre.region
        /\ upkt.repr = NoRepr
        /\ upkt.handle = ulast.pre.handle

C13_Witness ==
    /\ ulast.op = "deinit"
    /\ ulast.pre.repr # NoRepr
    /\ ulast.pre.region.len > UDP_HEADER_LEN
    /\ upkt.kind = "RawPacket"
    /\ upkt.region = ulast.pre.region

\* A reinit that succeeded and left the headers as long as they were.
SameHeaderLen ==
    /\ ulast.op = "reinit"
    /\ ulast.res = "Ok"
    /\ upkt.region.off = ulast.pre.region.off

\* C12: when reinit leaves the total header length as it was, every tracked
\* byte after the headers is what it was before the call.
C12_ReinitKeepsPayload ==
    SameHeaderLen =>
        \A i \in 1..BodyShown :
            upkt.region.body[i] = ulast.pre.region.body[i]

\* A reinit over a payload the handler has written, with other ports.
C12_Witness ==
    /\ SameHeaderLen
    /\ upkt.region.header # ulast.pre.region.header
    /\ upkt.region.len > UDP_HEADER_LEN
    /\ \E i \in 1..BodyShown : ulast.pre.region.body[i] = 7
    /\ upkt.region.body = ulast.pre.region.body

\* A prepare of a buffer that an earlier prepare with the same init, then
\* deinit, has left.
PreparedAgain ==
    /\ ulast.op = "prepare"
    /\ ulast.res = "Ok"
    /\ ulast.pre_emitted.valid
    /\ ulast.pre_emitted.init = ulast.init

\* C14: preparing again with the same init after prepare and deinit leaves
\* the header bytes the first prepare left.
C14_EmitIdempotent ==
    PreparedAgain =>
        /\ upkt.region.header = ulast.pre_emitted.header
        /\ upkt.region.off = ulast.pre_emitted.off
        /\ upkt.region.len = ulast.pre_emitted.len

C14_Witness ==
    /\ PreparedAgain
    /\ upkt.region.header = ulast.pre_emitted.header
    /\ upkt.region.header.length = ulast.init.payload + UDP_HEADER_LEN

IsPrepare == ulast.op \in {"prepare", "reinit"}

Wanted == ulast.init.payload + UDP_HEADER_LEN

\* What prepare asks of the ip layer, and the length a success leaves.
LengthAccounting ==
    /\ ulast.asked # <<>> => ulast.asked = <<Wanted>>
    /\ ulast.res = "Ok" =>
          /\ ulast.asked = <<Wanted>>
          /\ upkt.region.header.length = Wanted
          /\ upkt.repr.length = Wanted
          /\ upkt.region.len = Wanted

\* C15 as stated: prepare asks the ip layer for n + 8 bytes, a success has
\* the length field n + 8, and prepare fails with BadSize when n + 8
\* overflows the machine word or exceeds 65535.
C15_LengthOrBadSize ==
    IsPrepare =>
        /\ LengthAccounting
        /\ Wanted > U16_MAX => ulast.res = "BadSize"

\* C15, amended: the same, but when n + 8 fits the machine word and not 16
\* bits the ip layer is asked first: prepare then fails with the error of
\* the ip layer if that fails, and with BadSize if it does not.
C15_LengthOrFailure ==
    IsPrepare =>
        /\ LengthAccounting
        /\ Wanted > USIZE_MAX => ulast.res = "BadSize" /\ ulast.asked = <<>>
        /\ (Wanted > U16_MAX /\ Wanted <= USIZE_MAX) =>
              /\ ulast.asked = <<Wanted>>
              /\ ulast.res = IF Raised(ulast.cause) = "Ok" THEN "BadSize"
                             ELSE Raised(ulast.cause)

\* The ip layer took a length that the udp length field cannot hold.
C15_Witness ==
    /\ IsPrepare
    /\ Wanted > U16_MAX
    /\ ulast.asked = <<Wanted>>
    /\ Raised(ulast.cause) = "Ok"
    /\ ulast.res = "BadSize"

\* C16: an error of prepare, reinit or send is one of the four kinds; an
\* error of the layer below keeps its kind, a wire error arrives as Illegal
\* and a payload error as BadSize.
C16_ErrorKinds ==
    (ulast.op \in {"prepare", "reinit", "send"} /\ ulast.res # "Ok") =>
        /\ ulast.res \in {"Illegal", "BadSize", "Unreachable", "Exhausted"}
        /\ ulast.cause.kind = "layer" => ulast.res = ulast.cause.err
        /\ ulast.cause.kind = "wire" => ulast.res = "Illegal"
        /\ ulast.cause.kind = "payload" => ulast.res = "BadSize"

C16_Witness ==
    /\ ulast.op = "prepare"
    /\ ulast.cause.kind = "wire"
    /\ ulast.res = "Illegal"

\* C23: a prepare that returns an error leaves the bytes and the length of
\* the buffer as they were before the call, also when the 16-bit length
\* check fails after the ip layer has prepared the buffer.
C23_FailedPrepareKeepsBuffer ==
    (IsPrepare /\ ulast.res # "Ok") => ulast.left = ulast.pre.region

=============================================================================
